---- MODULE Spec2Model ----
(***************************************************************************)
(* Tombstone-aware sync engine of swastik_mcp: the versioned local cache   *)
(* (backend/src/db/sqlite.js), the foreground write path                   *)
(* (backend/src/services/memoryService.js) and the v2 sync engine          *)
(* (syncPush / syncPull / getSyncStatus / retryDeadLetters).               *)
(*                                                                         *)
(* The global_memory and project_memory tables and their helpers are       *)
(* line-for-line the same code up to the extra project_id column, so one   *)
(* table indexed by Keys stands for both.  The columns updated_at,         *)
(* updated_by and source_device_id of a local row are written but never    *)
(* read by the engine and are left out; deleted_at only records that a     *)
(* timestamp was stored.                                                   *)
(***************************************************************************)
EXTENDS Integers, Sequences, FiniteSets, TLC

\* ---------------------------------------------------------------- bounds
MaxRev      == 3      \* foreground writes stop once a key reached this revision
MaxQueue    == 1      \* rows of sync_queue
MaxBacklog  == 2      \* rows of sync_queue in the world "backlog"
MaxTime     == 2      \* last value of the clock
MaxOverlap  == 2      \* foreground writes awaiting their remote write in the world "overlap"
MaxPullTime == 3      \* clock values in the world "follower"
MaxInflight == 1      \* foreground writes awaiting their remote write
TicksPerDay == 2      \* clock ticks sharing one calendar date

\* ------------------------------------------------------ program constants
MAX_RETRIES   == 5    \* engine: const MAX_RETRIES = 5
DeadLetterAt  == 4    \* sqlite.markSyncFailed: CASE WHEN retry_count >= 4

Keys    == {"k1"}
Values  == {"v1"}            \* what this device writes
OtherValues == {"v2"}       \* what another device writes
Devices == {"backend-primary"}
Pushers == {"p1", "p2"}        \* syncPush invocations that may overlap

\* The environments explored.  "solo": the device alone with a remote store that
\* may reject or time out any write, within one clock tick.  "shared": another
\* device writes the same store and the clock advances, while the store accepts
\* every write of this device; the delete and restore calls that end in NOT_FOUND
\* are followed here.  "backlog": as "solo" with a longer outbox, one syncPush at
\* a time and no syncPull; the calls of getSyncStatus are followed here.
\* "overlap": the remote store accepts every write, and a foreground write may
\* begin while the remote write of another is awaited.  "follower": the device
\* writes nothing itself and pulls what another device writes, over a longer
\* time; the other device and the clock are followed here also while a syncPull
\* awaits its later reads.
Worlds == {"solo", "shared", "backlog", "overlap", "follower"}

NULL    == "NULL"          \* SQL NULL / JS null
Missing == "Missing"       \* a field a document or payload does not have
Uid     == "owner"

\* ------------------------------------------------------------ local rows
NoRow == [present |-> FALSE, value |-> NULL, revision |-> 0, deleted |-> FALSE,
          deleted_at |-> NULL, deleted_by |-> NULL, delete_reason |-> NULL,
          infection_id |-> NULL]

\* JS `x || dflt` on a field that may be missing or null
OrElse(x, dflt) == IF x = Missing \/ x = NULL THEN dflt ELSE x

\* sqlite.setGlobalMemory changed: the upsert replaces the row, the revision falls
\* back to the column default
sqlite_setGlobalMemory_Replace(row, value) ==
  [present |-> TRUE, value |-> value, revision |-> 1,
   deleted |-> FALSE, deleted_at |-> NULL, deleted_by |-> NULL,
   delete_reason |-> NULL, infection_id |-> NULL]

\* sqlite.setGlobalMemory / setProjectMemory: the row written
sqlite_setGlobalMemory(row, value) ==
  [present |-> TRUE, value |-> value,
   revision |-> IF row.present THEN row.revision + 1 ELSE 1,
   deleted |-> FALSE, deleted_at |-> NULL, deleted_by |-> NULL,
   delete_reason |-> NULL, infection_id |-> NULL]

\* sqlite.tombstoneGlobalMemory changed: the row is removed (DELETE FROM)
sqlite_tombstoneGlobalMemory_Erases(row, meta) == NoRow

\* sqlite.tombstoneGlobalMemory changed: an upsert, a key without a row gets a
\* tombstoned row
sqlite_tombstoneGlobalMemory_Upserts(row, meta) ==
  [present |-> TRUE, value |-> row.value,
   revision |-> IF row.present THEN row.revision + 1 ELSE 1,
   deleted |-> TRUE, deleted_at |-> "ts",
   deleted_by |-> OrElse(meta.deleted_by, NULL),
   delete_reason |-> OrElse(meta.delete_reason, NULL),
   infection_id |-> OrElse(meta.infection_id, NULL)]

\* sqlite.tombstoneGlobalMemory: no row, no change (returns null)
sqlite_tombstoneGlobalMemory(row, meta) ==
  IF ~row.present THEN row
  ELSE [row EXCEPT !.revision = row.revision + 1,
                   !.deleted = TRUE, !.deleted_at = "ts",
                   !.deleted_by = OrElse(meta.deleted_by, NULL),
                   !.delete_reason = OrElse(meta.delete_reason, NULL),
                   !.infection_id = OrElse(meta.infection_id, NULL)]

\* sqlite.restoreGlobalMemory changed: the revision is not incremented
sqlite_restoreGlobalMemory_NoBump(row) ==
  IF ~row.present \/ ~row.deleted THEN row
  ELSE [row EXCEPT !.deleted = FALSE, !.deleted_at = NULL, !.deleted_by = NULL,
                   !.delete_reason = NULL, !.infection_id = NULL]

\* sqlite.restoreGlobalMemory changed: delete_reason is not among the columns reset
sqlite_restoreGlobalMemory_KeepsReason(row) ==
  IF ~row.present \/ ~row.deleted THEN row
  ELSE [row EXCEPT !.revision = row.revision + 1,
                   !.deleted = FALSE, !.deleted_at = NULL, !.deleted_by = NULL,
                   !.infection_id = NULL]

\* sqlite.restoreGlobalMemory: no row or not deleted, no change (returns null)
sqlite_restoreGlobalMemory(row) ==
  IF ~row.present \/ ~row.deleted THEN row
  ELSE [row EXCEPT !.revision = row.revision + 1,
                   !.deleted = FALSE, !.deleted_at = NULL, !.deleted_by = NULL,
                   !.delete_reason = NULL, !.infection_id = NULL]

\* sqlite.getGlobalMemoryFull, and the NotFound rule of memoryService.getGlobalMemory
getGlobalMemoryFound(row, includeDeleted) ==
  row.present /\ (~row.deleted \/ includeDeleted)

\* ------------------------------------------------- remote documents, payloads
NoDoc == [exists |-> FALSE, value |-> Missing, revision |-> 0, deleted |-> FALSE,
          deleted_at |-> Missing, deleted_by |-> Missing, delete_reason |-> Missing,
          infection_id |-> Missing, updated_at |-> 0]

\* memoryService.setGlobalMemory: the payload of a set
SetPayload(value, revision, t) ==
  [value |-> value, revision |-> revision, deleted |-> FALSE,
   deleted_at |-> Missing, deleted_by |-> Missing, delete_reason |-> Missing,
   infection_id |-> Missing, updated_at |-> t]

\* memoryService.deleteGlobalMemory: the payload of a tombstone (carries no value)
TombstonePayload(details, revision, t) ==
  [value |-> Missing, revision |-> revision, deleted |-> TRUE,
   deleted_at |-> "ts", deleted_by |-> details.deleted_by,
   delete_reason |-> details.delete_reason, infection_id |-> details.infection_id,
   updated_at |-> t]

\* memoryService.restoreGlobalMemory: the payload of a restore (carries no value)
RestorePayload(revision, t) ==
  [value |-> Missing, revision |-> revision, deleted |-> FALSE,
   deleted_at |-> NULL, deleted_by |-> NULL, delete_reason |-> NULL,
   infection_id |-> NULL, updated_at |-> t]

\* memoryService.deleteGlobalMemory: details from (reason, infectionId)
DeleteDetails(reason, infectionId) ==
  [deleted_by |-> Uid, delete_reason |-> OrElse(reason, "Manual delete"),
   infection_id |-> OrElse(infectionId, NULL)]

\* (reason, infectionId) of a delete on this device, and on another device
DeleteInputs == {[reason |-> "cleanup", infectionId |-> "inf1"]}
OtherDeleteInputs == {[reason |-> NULL, infectionId |-> NULL]}

\* ref.set changed: the stored revision is a server-side increment of the one
\* the document holds
MergeWrite_Increment(doc, payload) ==
  [exists |-> TRUE,
   value |-> IF payload.value = Missing THEN doc.value ELSE payload.value,
   revision |-> IF doc.exists THEN doc.revision + 1 ELSE payload.revision,
   deleted |-> payload.deleted,
   deleted_at |-> IF payload.deleted_at = Missing THEN doc.deleted_at ELSE payload.deleted_at,
   deleted_by |-> IF payload.deleted_by = Missing THEN doc.deleted_by ELSE payload.deleted_by,
   delete_reason |-> IF payload.delete_reason = Missing THEN doc.delete_reason
                     ELSE payload.delete_reason,
   infection_id |-> IF payload.infection_id = Missing THEN doc.infection_id
                    ELSE payload.infection_id,
   updated_at |-> payload.updated_at]

\* Firestore ref.set(payload, {merge: true}): only the fields of the payload change
MergeWrite(doc, payload) ==
  [exists |-> TRUE,
   value |-> IF payload.value = Missing THEN doc.value ELSE payload.value,
   revision |-> payload.revision,
   deleted |-> payload.deleted,
   deleted_at |-> IF payload.deleted_at = Missing THEN doc.deleted_at ELSE payload.deleted_at,
   deleted_by |-> IF payload.deleted_by = Missing THEN doc.deleted_by ELSE payload.deleted_by,
   delete_reason |-> IF payload.delete_reason = Missing THEN doc.delete_reason
                     ELSE payload.delete_reason,
   infection_id |-> IF payload.infection_id = Missing THEN doc.infection_id
                    ELSE payload.infection_id,
   updated_at |-> payload.updated_at]

\* the remote effect of one outbox item in syncPush / retryDeadLetters:
\* ref.set({...payload, updated_at: now}, {merge: true}) or ref.delete()
PushWrite(doc, item, t) ==
  IF item.operation \in {"SET", "TOMBSTONE"}
  THEN MergeWrite(doc, [item.payload EXCEPT !.updated_at = t])
  ELSE IF item.operation = "DELETE" THEN NoDoc
  ELSE doc

\* ------------------------------------------------------------------ reads
NotFound == [found |-> FALSE, source |-> "none", value |-> NULL, deleted |-> FALSE]

\* memoryService.getGlobalMemory: the remote document if the read resolves and the
\* document exists, else the local row; a record with deleted set is NOT_FOUND
\* unless includeDeleted
getGlobalMemory(row, doc, reachable, includeDeleted) ==
  IF reachable /\ doc.exists
  THEN IF doc.deleted /\ ~includeDeleted THEN NotFound
       ELSE [found |-> TRUE, source |-> "firebase", value |-> doc.value,
             deleted |-> doc.deleted]
  ELSE IF ~getGlobalMemoryFound(row, includeDeleted) THEN NotFound
  ELSE [found |-> TRUE, source |-> "sqlite", value |-> row.value, deleted |-> row.deleted]

\* memoryService.listGlobalMemory: the keys listed, from the remote collection if
\* the query resolves (where('deleted', '!=', true) unless includeDeleted), else
\* from sqlite.getAllGlobalMemory (WHERE deleted = 0 unless includeDeleted)
listGlobalMemory(loc, docs, reachable, includeDeleted) ==
  IF reachable
  THEN {k \in Keys : docs[k].exists /\ (includeDeleted \/ ~docs[k].deleted)}
  ELSE {k \in Keys : loc[k].present /\ (includeDeleted \/ ~loc[k].deleted)}

\* ------------------------------------------------------------- sync_queue
\* sqlite.enqueueSync: the row inserted (column defaults of the schema)
enqueueSync(key, operation, payload) ==
  [key |-> key, operation |-> operation, payload |-> payload,
   synced |-> FALSE, retry_count |-> 0, last_error |-> NULL, dead_letter |-> FALSE]

\* sqlite.markSynced changed: the row is reset as well (retry_count back to 0)
markSynced_ResetsRetry(item) == [item EXCEPT !.synced = TRUE, !.retry_count = 0]

\* sqlite.markSynced
markSynced(item) == [item EXCEPT !.synced = TRUE]

\* sqlite.markSyncFailed changed: the CASE compares the old count with MAX_RETRIES
markSyncFailed_OneLate(item, error) ==
  [item EXCEPT !.retry_count = item.retry_count + 1,
               !.last_error = error,
               !.dead_letter = (item.retry_count >= MAX_RETRIES)]

\* sqlite.markSyncFailed changed: the CASE tests the count for equality
markSyncFailed_ExactCount(item, error) ==
  [item EXCEPT !.retry_count = item.retry_count + 1,
               !.last_error = error,
               !.dead_letter = (item.retry_count = DeadLetterAt)]

\* sqlite.markSyncFailed: both assignments read the row as it was before the UPDATE
markSyncFailed(item, error) ==
  [item EXCEPT !.retry_count = item.retry_count + 1,
               !.last_error = error,
               !.dead_letter = (item.retry_count >= DeadLetterAt)]

RECURSIVE IdsFrom(_, _)
\* the positions i, i+1, ... of flags that hold TRUE, ascending (row ids in insertion order)
IdsFrom(flags, i) ==
  IF i > Len(flags) THEN << >>
  ELSE (IF flags[i] THEN << i >> ELSE << >>) \o IdsFrom(flags, i + 1)

\* sqlite.getPendingSyncItems changed: rows that failed before are left out
\* (AND retry_count = 0)
getPendingSyncItems_OnlyFresh(q) ==
  IdsFrom([i \in 1..Len(q) |-> ~q[i].synced /\ ~q[i].dead_letter /\ q[i].retry_count = 0], 1)

\* sqlite.getPendingSyncItems changed: ORDER BY created_at DESC
getPendingSyncItems_NewestFirst(q) ==
  LET asc == IdsFrom([i \in 1..Len(q) |-> ~q[i].synced /\ ~q[i].dead_letter], 1)
  IN [i \in 1..Len(asc) |-> asc[Len(asc) + 1 - i]]

\* sqlite.getPendingSyncItems: synced = 0 AND dead_letter = 0 ORDER BY created_at
\* (rows of one created_at come out in rowid order, the order of insertion)
getPendingSyncItems(q) ==
  IdsFrom([i \in 1..Len(q) |-> ~q[i].synced /\ ~q[i].dead_letter], 1)

\* sqlite.getDeadLetterItems: WHERE dead_letter = 1
getDeadLetterItems(q) ==
  IdsFrom([i \in 1..Len(q) |-> q[i].dead_letter], 1)

\* getSyncStatus changed: the counts are those of samples of one row
getSyncStatus_CountsSample(q) ==
  [pending |-> IF getPendingSyncItems(q) = << >> THEN 0 ELSE 1,
   deadLetters |-> IF getDeadLetterItems(q) = << >> THEN 0 ELSE 1]

\* engine getSyncStatus
getSyncStatus(q) ==
  [pending |-> Len(getPendingSyncItems(q)), deadLetters |-> Len(getDeadLetterItems(q))]

\* ------------------------------------------------------------------ pull
\* PullDoc changed: a local tombstone yields to a live document of the same revision
PullDoc_TieGoesToLive(row, data) ==
  LET remoteRev == data.revision
      localRev  == IF row.present THEN row.revision ELSE -1
      tombstoned == sqlite_tombstoneGlobalMemory(row,
                     [deleted_by    |-> OrElse(data.deleted_by, "sync"),
                      delete_reason |-> OrElse(data.delete_reason, "Synced tombstone"),
                      infection_id  |-> OrElse(data.infection_id, NULL)])
      upserted == sqlite_setGlobalMemory(row, data.value)
  IN IF localRev > remoteRev THEN [row |-> row, res |-> "skipped", ret |-> 0]
     ELSE IF data.deleted
     THEN [row |-> tombstoned, res |-> "pulled",
           ret |-> IF row.present THEN tombstoned.revision ELSE 0]
     ELSE IF row.present /\ row.deleted /\ localRev > remoteRev
     THEN [row |-> row, res |-> "skipped", ret |-> 0]
     ELSE IF data.value = Missing THEN [row |-> row, res |-> "threw", ret |-> 0]
     ELSE [row |-> upserted, res |-> "pulled", ret |-> upserted.revision]

\* PullDoc changed: a local tombstone is kept whatever the revision of the live document
PullDoc_TombstoneAlwaysWins(row, data) ==
  LET remoteRev == data.revision
      localRev  == IF row.present THEN row.revision ELSE -1
      tombstoned == sqlite_tombstoneGlobalMemory(row,
                     [deleted_by    |-> OrElse(data.deleted_by, "sync"),
                      delete_reason |-> OrElse(data.delete_reason, "Synced tombstone"),
                      infection_id  |-> OrElse(data.infection_id, NULL)])
      upserted == sqlite_setGlobalMemory(row, data.value)
  IN IF localRev > remoteRev THEN [row |-> row, res |-> "skipped", ret |-> 0]
     ELSE IF data.deleted
     THEN [row |-> tombstoned, res |-> "pulled",
           ret |-> IF row.present THEN tombstoned.revision ELSE 0]
     ELSE IF row.present /\ row.deleted
     THEN [row |-> row, res |-> "skipped", ret |-> 0]
     ELSE IF data.value = Missing THEN [row |-> row, res |-> "threw", ret |-> 0]
     ELSE [row |-> upserted, res |-> "pulled", ret |-> upserted.revision]

\* PullDoc changed: a remote document of the local revision is skipped (>=)
PullDoc_TieSkipped(row, data) ==
  LET remoteRev == data.revision
      localRev  == IF row.present THEN row.revision ELSE -1
      tombstoned == sqlite_tombstoneGlobalMemory(row,
                     [deleted_by    |-> OrElse(data.deleted_by, "sync"),
                      delete_reason |-> OrElse(data.delete_reason, "Synced tombstone"),
                      infection_id  |-> OrElse(data.infection_id, NULL)])
      upserted == sqlite_setGlobalMemory(row, data.value)
  IN IF localRev >= remoteRev THEN [row |-> row, res |-> "skipped", ret |-> 0]
     ELSE IF data.deleted
     THEN [row |-> tombstoned, res |-> "pulled",
           ret |-> IF row.present THEN tombstoned.revision ELSE 0]
     ELSE IF row.present /\ row.deleted /\ localRev >= remoteRev
     THEN [row |-> row, res |-> "skipped", ret |-> 0]
     ELSE IF data.value = Missing THEN [row |-> row, res |-> "threw", ret |-> 0]
     ELSE [row |-> upserted, res |-> "pulled", ret |-> upserted.revision]

\* PullDoc changed: the upsert of a live document keeps the revision of the row
PullDoc_KeepsRevision(row, data) ==
  LET remoteRev == data.revision
      localRev  == IF row.present THEN row.revision ELSE -1
      tombstoned == sqlite_tombstoneGlobalMemory(row,
                     [deleted_by    |-> OrElse(data.deleted_by, "sync"),
                      delete_reason |-> OrElse(data.delete_reason, "Synced tombstone"),
                      infection_id  |-> OrElse(data.infection_id, NULL)])
      upserted == [sqlite_setGlobalMemory(row, data.value) EXCEPT
                     !.revision = IF row.present THEN row.revision ELSE 1]
  IN IF localRev > remoteRev THEN [row |-> row, res |-> "skipped", ret |-> 0]
     ELSE IF data.deleted
     THEN [row |-> tombstoned, res |-> "pulled",
           ret |-> IF row.present THEN tombstoned.revision ELSE 0]
     ELSE IF row.present /\ row.deleted /\ localRev >= remoteRev
     THEN [row |-> row, res |-> "skipped", ret |-> 0]
     ELSE IF data.value = Missing THEN [row |-> row, res |-> "threw", ret |-> 0]
     ELSE [row |-> upserted, res |-> "pulled", ret |-> upserted.revision]

\* PullDoc changed: the stale-remote test compares the wrong way round
PullDoc_StaleTestInverted(row, data) ==
  LET remoteRev == data.revision
      localRev  == IF row.present THEN row.revision ELSE -1
      tombstoned == sqlite_tombstoneGlobalMemory(row,
                     [deleted_by    |-> OrElse(data.deleted_by, "sync"),
                      delete_reason |-> OrElse(data.delete_reason, "Synced tombstone"),
                      infection_id  |-> OrElse(data.infection_id, NULL)])
      upserted == sqlite_setGlobalMemory(row, data.value)
  IN IF localRev < remoteRev THEN [row |-> row, res |-> "skipped", ret |-> 0]
     ELSE IF data.deleted
     THEN [row |-> tombstoned, res |-> "pulled",
           ret |-> IF row.present THEN tombstoned.revision ELSE 0]
     ELSE IF row.present /\ row.deleted /\ localRev >= remoteRev
     THEN [row |-> row, res |-> "skipped", ret |-> 0]
     ELSE IF data.value = Missing THEN [row |-> row, res |-> "threw", ret |-> 0]
     ELSE [row |-> upserted, res |-> "pulled", ret |-> upserted.revision]

\* one iteration of the loop of syncPull over a remote document `data`, against
\* the local row of the same key: the row left, how the document was counted, and
\* the revision the sqlite call returned (0: no call, or it returned null)
PullDoc(row, data) ==
  LET remoteRev == data.revision
      localRev  == IF row.present THEN row.revision ELSE -1
      tombstoned == sqlite_tombstoneGlobalMemory(row,
                     [deleted_by    |-> OrElse(data.deleted_by, "sync"),
                      delete_reason |-> OrElse(data.delete_reason, "Synced tombstone"),
                      infection_id  |-> OrElse(data.infection_id, NULL)])
      upserted == sqlite_setGlobalMemory(row, data.value)
  IN IF localRev > remoteRev THEN [row |-> row, res |-> "skipped", ret |-> 0]
     ELSE IF data.deleted
     THEN [row |-> tombstoned, res |-> "pulled",
           ret |-> IF row.present THEN tombstoned.revision ELSE 0]
     ELSE IF row.present /\ row.deleted /\ localRev >= remoteRev
     THEN [row |-> row, res |-> "skipped", ret |-> 0]
     \* JSON.stringify(undefined) is undefined: the INSERT into value TEXT NOT NULL throws
     ELSE IF data.value = Missing THEN [row |-> row, res |-> "threw", ret |-> 0]
     ELSE [row |-> upserted, res |-> "pulled", ret |-> upserted.revision]

\* calendar date of a clock value
Day(t) == t \div TicksPerDay

\* sqlite.getDeviceLastSync(d) || '1970-01-01T00:00:00.000Z'
getDeviceLastSync(dev) ==
  IF dev.row THEN [epoch |-> FALSE, t |-> dev.last_sync] ELSE [epoch |-> TRUE, t |-> 0]

\* where('updated_at', '>', lastSync): a comparison of strings.  updated_at is
\* toISOString() text 'YYYY-MM-DDTHH:MM:SS.mmmZ'; a stored cursor is SQLite
\* datetime('now') text 'YYYY-MM-DD HH:MM:SS'.  With equal dates the 11th
\* characters decide, and 'T' sorts after ' '.
UpdatedAfter(t, lastSync) ==
  IF lastSync.epoch THEN t > 0 ELSE Day(t) >= Day(lastSync.t)

\* document ids in ascending order (ties of updated_at are returned by id)
KeyOrd(k) == IF k = "k1" THEN 1 ELSE 2

RECURSIVE OrderDocs(_, _)
\* .orderBy('updated_at', 'asc'): the keys of S by (updated_at, id) of their documents
OrderDocs(S, docs) ==
  IF S = {} THEN << >>
  ELSE LET first == CHOOSE k \in S : \A j \in S :
                      \/ docs[k].updated_at < docs[j].updated_at
                      \/ /\ docs[k].updated_at = docs[j].updated_at
                         /\ KeyOrd(k) <= KeyOrd(j)
       IN << first >> \o OrderDocs(S \ {first}, docs)

\* the snapshot of the query of syncPull
QuerySnapshot(docs, lastSync) ==
  OrderDocs({k \in Keys : docs[k].exists /\ UpdatedAfter(docs[k].updated_at, lastSync)}, docs)

RECURSIVE PullLoop(_, _, _, _, _)
\* for (const doc of globalSnap.docs) {...}: stops at the first throw
PullLoop(snap, docs, loc, out, log) ==
  IF snap = << >> THEN [local |-> loc, outcome |-> out, log |-> log, threw |-> FALSE]
  ELSE LET k == Head(snap)
           r == PullDoc(loc[k], docs[k])
       IN IF r.res = "threw"
          THEN [local |-> loc, outcome |-> [out EXCEPT ![k] = "threw"], log |-> log,
                threw |-> TRUE]
          ELSE PullLoop(Tail(snap), docs, [loc EXCEPT ![k] = r.row],
                        [out EXCEPT ![k] = r.res],
                        [log EXCEPT ![k] = IF r.ret = 0 THEN @ ELSE Append(@, r.ret)])

Count(out, res) == Cardinality({k \in Keys : out[k] = res})

NoDevice == [row |-> FALSE, last_sync |-> 0]

\* sqlite.upsertDevice
upsertDevice(dev, t) == [row |-> TRUE, last_sync |-> t]

\* sqlite.updateDeviceLastSync: UPDATE devices ... WHERE device_id = ?
updateDeviceLastSync(dev, t) == IF dev.row THEN [dev EXCEPT !.last_sync = t] ELSE dev

\* syncPull changed: the cursor is advanced in a finally, also when the cycle aborted
CursorAfterPull_Always(dev, aborted, t) == updateDeviceLastSync(dev, t)

\* syncPull: sqlite.updateDeviceLastSync(deviceId) is the last statement of the
\* try; a throw before it (a remote read that rejects, a local write that
\* throws) skips it
CursorAfterPull(dev, aborted, t) == IF aborted THEN dev ELSE updateDeviceLastSync(dev, t)

\* ------------------------------------------------------------------ state
VARIABLES
  local,      \* global_memory / project_memory rows, by key
  remote,     \* the Firestore documents, by key
  queue,      \* sync_queue rows in insertion order; the row id is the position
  devices,    \* devices rows, by device id
  now,        \* the clock
  inflight,   \* foreground writes awaiting the outcome of their direct remote write
  push,       \* per syncPush invocation: where it is and the items it still holds
  retry,      \* the retryDeadLetters invocation
  pull,       \* the syncPull invocation
  revLog,     \* per key, the revisions returned by the successful local mutations
  world,      \* which environment this run explores (fixed at Init)
  lastPush,   \* the outbox row written by the latest remote writes, how many times
              \* in a row (1 or 2: twice or more), and the document its first write left
  reply,      \* what a call is returning: { status, key, revision } of a foreground
              \* write and whether its remote write of the payload landed, or
              \* { pending, deadLetters } of getSyncStatus
  audit       \* audit_log rows in insertion order

vars ==
  << local, remote, queue, devices, now, inflight, push, retry, pull, revLog, world,
     lastPush, reply, audit >>

\* syncPull returns in the turn of the event loop that stored its cursor, and so
\* does a foreground write after its last await: while a result is on display
\* nothing else runs.  While a syncPull awaits its later reads only the other
\* device and the clock are followed (Reading).
Quiet == pull.pc \notin {"reads", "done"} /\ reply.status = "none"
Reading == pull.pc = "reads" /\ world = "follower"

\* whether the remote store may reject a write of this device in this world
MayFail == world \in {"solo", "backlog"}

\* the rows sync_queue may hold in this world
QueueCap == IF world = "backlog" THEN MaxBacklog ELSE MaxQueue

\* the foreground writes that may await their remote write at once in this world
InflightCap ==
  IF world = "overlap" THEN MaxOverlap ELSE IF world = "follower" THEN 0 ELSE MaxInflight

\* the last clock value of this world
ClockCap == IF world = "follower" THEN MaxPullTime ELSE MaxTime

NoOutcome == [k \in Keys |-> "unseen"]
\* the syncPull invocation: where it is, its deviceId and lastSync, what it returns
\* (status, pulled, skipped), and for the finished loop the snapshot it ran over,
\* the documents in it, and the local rows before it
PullIdle == [pc |-> "idle", device |-> "backend-primary",
             lastSync |-> [epoch |-> TRUE, t |-> 0],
             status |-> "none", pulled |-> 0, skipped |-> 0, outcome |-> NoOutcome,
             snap |-> << >>, seen |-> [k \in Keys |-> NoDoc],
             before |-> [k \in Keys |-> NoRow]]
\* a syncPush invocation: where it is, the rows it read at its start (pending),
\* those it still has to handle (todo), and its counters synced and failed
Idle == [pc |-> "idle", todo |-> << >>, pending |-> << >>, synced |-> 0, failed |-> 0]
\* the retryDeadLetters invocation: the rows it read at its start (dead), those it
\* still has to handle (todo), and its counter retried
RetryIdle == [pc |-> "idle", todo |-> << >>, dead |-> << >>, retried |-> 0]
NoPush == [id |-> 0, n |-> 0, doc |-> NoDoc]
NoReply == [status |-> "none", key |-> NULL, revision |-> 0, remote |-> "none",
            pending |-> 0, deadLetters |-> 0]

\* the status a foreground write returns: memoryService / memory routes,
\* return { status: ..., key, revision }
StatusOf(call, ok) ==
  IF call = "set" THEN (IF ok THEN "synced" ELSE "queued")
  ELSE IF call = "delete" THEN (IF ok THEN "deleted" ELSE "queued-delete")
  ELSE (IF ok THEN "restored" ELSE "queued-restore")

\* the latest remote write was that of outbox row id and left the document doc
Pushed(last, id, doc) ==
  IF last.id = id THEN [last EXCEPT !.n = 2] ELSE [id |-> id, n |-> 1, doc |-> doc]

Init ==
  /\ local = [k \in Keys |-> NoRow]
  /\ remote = [k \in Keys |-> NoDoc]
  /\ queue = << >>
  /\ now = 1
  /\ devices \in [Devices -> {NoDevice, upsertDevice(NoDevice, 1)}]
  /\ world \in Worlds
  /\ inflight = {}
  /\ push = [p \in Pushers |-> Idle]
  /\ retry = RetryIdle
  /\ pull = PullIdle
  /\ revLog = [k \in Keys |-> << >>]
  /\ lastPush = NoPush
  /\ reply = NoReply
  /\ audit = << >>

\* ------------------------------------------------------- foreground writes
\* memoryService.setGlobalMemory up to its await: the local write, the payload
setGlobalMemory(k, v) ==
  /\ Quiet
  /\ local[k].revision < MaxRev
  /\ Cardinality(inflight) < InflightCap
  /\ LET row == sqlite_setGlobalMemory(local[k], v)
     IN /\ local' = [local EXCEPT ![k] = row]
        /\ revLog' = [revLog EXCEPT ![k] = Append(@, row.revision)]
        /\ inflight' = inflight \cup
             {[call |-> "set", key |-> k, operation |-> "SET",
               payload |-> SetPayload(v, row.revision, now)]}
  /\ UNCHANGED << audit, remote, queue, devices, now, push, retry, pull, world, lastPush, reply >>

\* sqlite.logAudit changed: every row is inserted as a DELETE
logAudit_AlwaysDelete(action, key) == [action |-> "DELETE", doc_path |-> key, actor_uid |-> Uid]

\* sqlite.logAudit: the row inserted
logAudit(action, key) == [action |-> action, doc_path |-> key, actor_uid |-> Uid]

\* what a delete or restore that throws MemoryServiceError(404, 'NOT_FOUND', message)
\* hands to its caller
NotFoundReply(k, message) == [NoReply EXCEPT !.status = message, !.key = k]

\* memoryService.deleteGlobalMemory up to its last await.  No row for the key:
\* sqlite.tombstoneGlobalMemory returns null and the call throws NOT_FOUND before
\* anything is logged or written.
deleteGlobalMemory(k, in) ==
  /\ Quiet
  /\ LET details == DeleteDetails(in.reason, in.infectionId)
         row == sqlite_tombstoneGlobalMemory(local[k], details)
     IN \/ /\ ~local[k].present
           /\ world = "shared"
           /\ local' = [local EXCEPT ![k] = row]
           /\ reply' = NotFoundReply(k, "Key not found")
           /\ UNCHANGED << revLog, inflight, audit >>
        \/ /\ local[k].present
           /\ local[k].revision < MaxRev
           /\ Cardinality(inflight) < InflightCap
           /\ local' = [local EXCEPT ![k] = row]
           /\ revLog' = [revLog EXCEPT ![k] = Append(@, row.revision)]
           /\ audit' = Append(audit, logAudit("DELETE", k))
           /\ inflight' = inflight \cup
                {[call |-> "delete", key |-> k, operation |-> "TOMBSTONE",
                  payload |-> TombstonePayload(details, row.revision, now)]}
           /\ UNCHANGED reply
  /\ UNCHANGED << remote, queue, devices, now, push, retry, pull, world, lastPush >>

\* memoryService.restoreGlobalMemory up to its last await.  No row for the key, or
\* a row that is not deleted: sqlite.restoreGlobalMemory returns null and the call
\* throws NOT_FOUND before anything is logged or written.
restoreGlobalMemory(k) ==
  /\ Quiet
  /\ LET row == sqlite_restoreGlobalMemory(local[k])
     IN \/ /\ ~local[k].present \/ ~local[k].deleted
           /\ world = "shared"
           /\ local' = [local EXCEPT ![k] = row]
           /\ reply' = NotFoundReply(k, "Key not found or not deleted")
           /\ UNCHANGED << revLog, inflight, audit >>
        \/ /\ local[k].present /\ local[k].deleted
           /\ local[k].revision < MaxRev
           /\ Cardinality(inflight) < InflightCap
           /\ local' = [local EXCEPT ![k] = row]
           /\ revLog' = [revLog EXCEPT ![k] = Append(@, row.revision)]
           /\ audit' = Append(audit, logAudit("RESTORE", k))
           /\ inflight' = inflight \cup
                {[call |-> "restore", key |-> k, operation |-> "SET",
                  payload |-> RestorePayload(row.revision, now)]}
           /\ UNCHANGED reply
  /\ UNCHANGED << remote, queue, devices, now, push, retry, pull, world, lastPush >>

\* the direct remote write of a foreground write resolves:
\* doc.set(payload, {merge: true}); return { status: 'synced', key, revision }
DirectWriteOk(w) ==
  /\ Quiet
  /\ w \in inflight
  /\ inflight' = inflight \ {w}
  /\ remote' = [remote EXCEPT ![w.key] = MergeWrite(remote[w.key], w.payload)]
  /\ lastPush' = NoPush
  /\ reply' = [NoReply EXCEPT !.status = StatusOf(w.call, TRUE), !.key = w.key,
                              !.revision = w.payload.revision, !.remote = "written"]
  /\ UNCHANGED << audit, local, queue, devices, now, push, retry, pull, revLog, world >>

\* ... or rejects: catch { sqlite.enqueueSync(collection, key, operation, payload);
\* return { status: 'queued', key, revision } }
DirectWriteFails(w) ==
  /\ Quiet
  /\ w \in inflight
  /\ MayFail
  /\ Len(queue) < QueueCap
  /\ inflight' = inflight \ {w}
  /\ queue' = Append(queue, enqueueSync(w.key, w.operation, w.payload))
  /\ reply' = [NoReply EXCEPT !.status = StatusOf(w.call, FALSE), !.key = w.key,
                              !.revision = w.payload.revision, !.remote = "rejected"]
  /\ UNCHANGED << audit, local, remote, devices, now, push, retry, pull, revLog, world, lastPush >>

\* the delete and restore routes: the write of the document resolves and the
\* logs.add() awaited after it in the same try rejects, so the catch runs
DirectWriteLogFails(w) ==
  /\ Quiet
  /\ w \in inflight
  /\ w.call \in {"delete", "restore"}
  /\ MayFail
  /\ Len(queue) < QueueCap
  /\ inflight' = inflight \ {w}
  /\ remote' = [remote EXCEPT ![w.key] = MergeWrite(remote[w.key], w.payload)]
  /\ lastPush' = NoPush
  /\ queue' = Append(queue, enqueueSync(w.key, w.operation, w.payload))
  /\ reply' = [NoReply EXCEPT !.status = StatusOf(w.call, FALSE), !.key = w.key,
                              !.revision = w.payload.revision, !.remote = "written"]
  /\ UNCHANGED << audit, local, devices, now, push, retry, pull, revLog, world >>

\* the call returns
writeReturn ==
  /\ reply.status # "none"
  /\ reply' = NoReply
  /\ UNCHANGED << audit, local, remote, queue, devices, now, inflight, push, retry, pull, revLog,
                  world, lastPush >>

\* ------------------------------------------------------------------ push
\* how a remote write ends: it lands and resolves, it rejects without landing,
\* or it lands and the call still rejects (a timeout after the commit)
Outcomes == {"ok", "fail", "lost"}

\* syncPush: const pending = sqlite.getPendingSyncItems() (an invocation with
\* nothing pending returns without any effect)
syncPushStart(p) ==
  /\ Quiet
  /\ push[p].pc = "idle"
  /\ world = "backlog" => p = "p1"
  /\ getPendingSyncItems(queue) # << >>
  /\ push' = [push EXCEPT ![p] = [Idle EXCEPT !.pc = "run",
                                               !.todo = getPendingSyncItems(queue),
                                               !.pending = getPendingSyncItems(queue)]]
  /\ UNCHANGED << audit, local, remote, queue, devices, now, inflight, retry, pull, revLog, world, lastPush, reply >>

\* the loop head with the failed item kept for another attempt in the same pass
RestOfPass_RetryAtOnce(todo, outcome) ==
  IF outcome = "ok" THEN Tail(todo) ELSE todo

\* for (const item of pending): whatever the write of an item ended in, the loop
\* goes on with the items after it
RestOfPass(todo, outcome) ==
  Tail(todo)

\* an iteration that also records the delivery in audit_log
syncPushItem_LogsAudit(p, outcome) ==
  /\ Quiet
  /\ push[p].pc = "run"
  /\ push[p].todo # << >>
  /\ LET id == Head(push[p].todo)
         item == queue[id]
     IN /\ outcome = "ok" \/ MayFail
        /\ remote' = IF outcome \in {"ok", "lost"}
                     THEN [remote EXCEPT ![item.key] = PushWrite(remote[item.key], item, now)]
                     ELSE remote
        /\ queue' = [queue EXCEPT ![id] = IF outcome = "ok" THEN markSynced(@)
                                          ELSE markSyncFailed(@, "err")]
        /\ lastPush' = IF outcome \in {"ok", "lost"}
                       THEN Pushed(lastPush, id, PushWrite(remote[item.key], item, now))
                       ELSE lastPush
        /\ audit' = Append(audit, logAudit("PUSH", item.key))
        /\ push' = [push EXCEPT ![p].todo = RestOfPass(@, outcome),
                                ![p].synced = IF outcome = "ok" THEN @ + 1 ELSE @,
                                ![p].failed = IF outcome = "ok" THEN @ ELSE @ + 1]
  /\ UNCHANGED << local, devices, now, inflight, retry, pull, revLog, world, reply >>

\* one iteration of the loop of syncPush: the write, then markSynced or markSyncFailed
syncPushItem(p, outcome) ==
  /\ Quiet
  /\ push[p].pc = "run"
  /\ push[p].todo # << >>
  /\ LET id == Head(push[p].todo)
         item == queue[id]
     IN /\ outcome = "ok" \/ MayFail
        /\ remote' = IF outcome \in {"ok", "lost"}
                     THEN [remote EXCEPT ![item.key] = PushWrite(remote[item.key], item, now)]
                     ELSE remote
        /\ queue' = [queue EXCEPT ![id] = IF outcome = "ok" THEN markSynced(@)
                                          ELSE markSyncFailed(@, "err")]
        /\ lastPush' = IF outcome \in {"ok", "lost"}
                       THEN Pushed(lastPush, id, PushWrite(remote[item.key], item, now))
                       ELSE lastPush
        /\ push' = [push EXCEPT ![p].todo = RestOfPass(@, outcome),
                                ![p].synced = IF outcome = "ok" THEN @ + 1 ELSE @,
                                ![p].failed = IF outcome = "ok" THEN @ ELSE @ + 1]
  /\ UNCHANGED << audit, local, devices, now, inflight, retry, pull, revLog, world, reply >>

\* syncPush: getFirestore() throws (Firestore was not initialised): the call
\* returns { synced: 0, failed: pending.length, error: 'Firebase unavailable' }
syncPushUnavailable(p) ==
  /\ Quiet
  /\ MayFail
  /\ push[p].pc = "idle"
  /\ world = "backlog" => p = "p1"
  /\ getPendingSyncItems(queue) # << >>
  /\ push' = [push EXCEPT ![p] = [Idle EXCEPT !.pc = "unavailable",
                                               !.pending = getPendingSyncItems(queue),
                                               !.failed = Len(getPendingSyncItems(queue))]]
  /\ UNCHANGED << audit, local, remote, queue, devices, now, inflight, retry, pull, revLog, world, lastPush, reply >>

\* syncPush returns: after one pass over the items it enumerated, or at once
\* when Firestore is unavailable
syncPushReturn(p) ==
  /\ Quiet
  /\ \/ push[p].pc = "run" /\ push[p].todo = << >>
     \/ push[p].pc = "unavailable"
  /\ push' = [push EXCEPT ![p] = Idle]
  /\ UNCHANGED << audit, local, remote, queue, devices, now, inflight, retry, pull, revLog, world, lastPush, reply >>

\* retryDeadLetters: const dead = sqlite.getDeadLetterItems(); if none, return
retryDeadLettersStart ==
  /\ Quiet
  /\ retry.pc = "idle"
  /\ getDeadLetterItems(queue) # << >>
  /\ retry' = [RetryIdle EXCEPT !.pc = "run", !.todo = getDeadLetterItems(queue),
                                !.dead = getDeadLetterItems(queue)]
  /\ UNCHANGED << audit, local, remote, queue, devices, now, inflight, push, pull, revLog, world, lastPush, reply >>

\* one iteration of the loop of retryDeadLetters: a failure leaves the row as it is
retryDeadLettersItem(outcome) ==
  /\ Quiet
  /\ retry.pc = "run"
  /\ retry.todo # << >>
  /\ LET id == Head(retry.todo)
         item == queue[id]
     IN /\ outcome = "ok" \/ MayFail
        /\ remote' = IF outcome \in {"ok", "lost"}
                     THEN [remote EXCEPT ![item.key] = PushWrite(remote[item.key], item, now)]
                     ELSE remote
        /\ queue' = IF outcome = "ok" THEN [queue EXCEPT ![id] = markSynced(@)] ELSE queue
        /\ lastPush' = IF outcome \in {"ok", "lost"}
                       THEN Pushed(lastPush, id, PushWrite(remote[item.key], item, now))
                       ELSE lastPush
        /\ retry' = [retry EXCEPT !.todo = Tail(@),
                                  !.retried = IF outcome = "ok" THEN @ + 1 ELSE @]
  /\ UNCHANGED << audit, local, devices, now, inflight, push, pull, revLog, world, reply >>

retryDeadLettersReturn ==
  /\ Quiet
  /\ retry.pc = "run"
  /\ retry.todo = << >>
  /\ retry' = RetryIdle
  /\ UNCHANGED << audit, local, remote, queue, devices, now, inflight, push, pull, revLog, world, lastPush, reply >>

\* a call of engine getSyncStatus: two SELECTs, the counts returned
getSyncStatusCall ==
  /\ Quiet
  /\ world = "backlog"
  /\ reply' = [NoReply EXCEPT !.status = "status",
                              !.pending = getSyncStatus(queue).pending,
                              !.deadLetters = getSyncStatus(queue).deadLetters]
  /\ UNCHANGED << local, remote, queue, devices, now, inflight, push, retry, pull, revLog,
                  world, lastPush, audit >>

\* ------------------------------------------------------------------ pull
\* syncPull(deviceId) up to its first await: the cursor is read, the query issued
syncPullStart(d) ==
  /\ Quiet
  /\ world \notin {"backlog", "overlap"}
  /\ pull.pc = "idle"
  /\ pull' = [PullIdle EXCEPT !.pc = "query", !.device = d,
                              !.lastSync = getDeviceLastSync(devices[d])]
  /\ UNCHANGED << audit, local, remote, queue, devices, now, inflight, push, retry, revLog, world, lastPush, reply >>

\* the snapshot arrives: the loop over its documents.  A local write that throws
\* ends the call with an error status; otherwise the reads of the project
\* collections are awaited
syncPullApply ==
  /\ Quiet
  /\ pull.pc = "query"
  /\ LET snap == QuerySnapshot(remote, pull.lastSync)
         r == PullLoop(snap, remote, local, NoOutcome, revLog)
     IN /\ local' = r.local
        /\ revLog' = r.log
        /\ devices' = IF r.threw
                      THEN [devices EXCEPT ![pull.device] = CursorAfterPull(@, TRUE, now)]
                      ELSE devices
        /\ pull' = [pull EXCEPT !.pc = IF r.threw THEN "done" ELSE "reads",
                                !.status = IF r.threw THEN "error" ELSE "none",
                                !.pulled = Count(r.outcome, "pulled"),
                                !.skipped = Count(r.outcome, "skipped"),
                                !.outcome = r.outcome,
                                !.snap = snap, !.seen = remote,
                                !.before = local]
  /\ UNCHANGED << audit, remote, queue, now, inflight, push, retry, world, lastPush, reply >>

\* the reads of the project collections end (laterReadFails: one of them
\* rejects), then the cursor; the return follows in the same turn of the event
\* loop (syncPullReturn)
syncPullFinish(laterReadFails) ==
  /\ pull.pc = "reads"
  /\ devices' = [devices EXCEPT ![pull.device] = CursorAfterPull(@, laterReadFails, now)]
  /\ pull' = [pull EXCEPT !.pc = "done",
                          !.status = IF laterReadFails THEN "error" ELSE "ok"]
  /\ UNCHANGED << audit, local, remote, queue, now, inflight, push, retry, revLog, world, lastPush, reply >>

\* getFirestore() throws, or the first remote read rejects: an error status is
\* returned, nothing was applied, the cursor stays
syncPullFails ==
  /\ Quiet
  /\ pull.pc = "query"
  /\ pull' = [pull EXCEPT !.pc = "done", !.status = "error", !.before = local]
  /\ UNCHANGED << audit, local, remote, queue, devices, now, inflight, push, retry, revLog, world, lastPush, reply >>

syncPullReturn ==
  /\ pull.pc = "done"
  /\ pull' = PullIdle
  /\ UNCHANGED << audit, local, remote, queue, devices, now, inflight, push, retry, revLog, world, lastPush, reply >>

\* ----------------------------------------------------------- environment
Tick ==
  /\ Quiet \/ Reading
  /\ world \in {"shared", "follower"}
  /\ now < ClockCap
  /\ now' = now + 1
  /\ UNCHANGED << audit, local, remote, queue, devices, inflight, push, retry, pull, revLog, world, lastPush, reply >>

\* the payloads another device running the same service can merge-write
OtherPayloads ==
  UNION {{SetPayload(v, r, now) : v \in OtherValues} \cup
         {TombstonePayload(DeleteDetails(in.reason, in.infectionId), r, now) :
            in \in OtherDeleteInputs} \cup
         {RestorePayload(r, now)} : r \in 1..MaxRev}

\* another device writes a document of the shared remote store
OtherDeviceWrite(k, payload) ==
  /\ Quiet \/ Reading
  /\ world \in {"shared", "follower"}
  /\ remote' = [remote EXCEPT ![k] = MergeWrite(@, payload)]
  /\ lastPush' = NoPush
  /\ UNCHANGED << audit, local, queue, devices, now, inflight, push, retry, pull, revLog, world, reply >>

Next ==
  \/ \E k \in Keys, v \in Values : setGlobalMemory(k, v)
  \/ \E k \in Keys, in \in DeleteInputs : deleteGlobalMemory(k, in)
  \/ \E k \in Keys : restoreGlobalMemory(k)
  \/ \E w \in inflight : DirectWriteOk(w)
  \/ \E w \in inflight : DirectWriteFails(w)
  \/ \E w \in inflight : DirectWriteLogFails(w)
  \/ writeReturn
  \/ \E p \in Pushers : syncPushStart(p)
  \/ \E p \in Pushers : syncPushUnavailable(p)
  \/ \E p \in Pushers, o \in Outcomes : syncPushItem(p, o)
  \/ \E p \in Pushers : syncPushReturn(p)
  \/ retryDeadLettersStart
  \/ \E o \in Outcomes : retryDeadLettersItem(o)
  \/ retryDeadLettersReturn
  \/ getSyncStatusCall
  \/ \E d \in Devices : syncPullStart(d)
  \/ syncPullApply
  \/ \E laterReadFails \in BOOLEAN : syncPullFinish(laterReadFails)
  \/ syncPullFails
  \/ syncPullReturn
  \/ Tick
  \/ \E k \in Keys, payload \in OtherPayloads : OtherDeviceWrite(k, payload)

Spec == Init /\ [][Next]_vars

\* syncPush keeps being invoked (POST /api/sync/push, by a client or a timer):
\* whenever rows are pending an invocation begins, with or without a Firestore
\* handle, and an invocation that began handles its rows and returns.  A call
\* that is returning returns, and a syncPull that awaits its later reads gets
\* their answer.
PushFairness ==
  /\ SF_vars(\E p \in Pushers : syncPushStart(p) \/ syncPushUnavailable(p))
  /\ SF_vars(\E p \in Pushers, o \in Outcomes : syncPushItem(p, o))
  /\ SF_vars(\E p \in Pushers : syncPushReturn(p))
  /\ WF_vars(writeReturn)
  /\ SF_vars(\E laterReadFails \in BOOLEAN : syncPullFinish(laterReadFails))
  /\ WF_vars(syncPullReturn)

PushSpec == Init /\ [][Next]_vars /\ PushFairness

\* the device agent runs a full sync, push then pull, at every interval: syncPull
\* keeps being invoked as well, an invocation gets the answer of its query, with
\* the documents or an error, and a foreground write gets the answer of its
\* remote write
SyncFairness ==
  /\ PushFairness
  /\ SF_vars(\E d \in Devices : syncPullStart(d))
  /\ SF_vars(syncPullApply \/ syncPullFails)
  /\ SF_vars(\E w \in inflight :
               DirectWriteOk(w) \/ DirectWriteFails(w) \/ DirectWriteLogFails(w))

SyncSpec == Init /\ [][Next]_vars /\ SyncFairness

\* ================================================================ claims
Range(seq) == {seq[i] : i \in 1..Len(seq)}

DeletionFields(row) ==
  << row.deleted, row.deleted_at, row.deleted_by, row.delete_reason, row.infection_id >>

\* a finished syncPull whose snapshot held a document for k
PullSaw(k) == pull.pc = "done" /\ pull.status # "none" /\ k \in Range(pull.snap)

\* C1: tombstone non-resurrection on pull.  When a syncPull has run over a live
\* remote document of a key whose local row was tombstoned at a revision R at
\* least the document's, the row is what it was: still tombstoned, same revision,
\* value and deletion fields.
C1_TombstoneNotResurrected ==
  \A k \in Keys :
    ( /\ PullSaw(k)
      /\ pull.before[k].present /\ pull.before[k].deleted
      /\ ~pull.seen[k].deleted
      /\ pull.seen[k].revision <= pull.before[k].revision )
    => /\ local[k] = pull.before[k]
       /\ local[k].deleted

\* C1 witness: the tie, a live document at exactly the revision of the local tombstone
C1_Witness ==
  \E k \in Keys :
    /\ PullSaw(k)
    /\ pull.before[k].present /\ pull.before[k].deleted
    /\ ~pull.seen[k].deleted /\ pull.seen[k].value # Missing
    /\ pull.seen[k].revision = pull.before[k].revision

C3_StaleRemoteSkipped ==
  \A k \in Keys :
    ( /\ PullSaw(k)
      /\ pull.before[k].present
      /\ pull.seen[k].revision < pull.before[k].revision )
    => /\ local[k] = pull.before[k]
       /\ pull.outcome[k] = "skipped"
       /\ pull.skipped >= 1

\* C3 witness: a stale remote tombstone met a live local row
C3_Witness ==
  \E k \in Keys :
    /\ PullSaw(k)
    /\ pull.before[k].present /\ ~pull.before[k].deleted
    /\ pull.seen[k].deleted
    /\ pull.seen[k].revision < pull.before[k].revision
    /\ pull.skipped = 1 /\ pull.pulled = 0

\* C4: revision monotonicity.  The revisions returned by the successful local
\* mutations of a key (set, tombstone, restore), from the absent key on, are
\* 1, 2, ..., N in this order.
C4_RevisionsCountUp ==
  \A k \in Keys : \A i \in 1..Len(revLog[k]) : revLog[k][i] = i

\* C4 witness: a key that went through a set, a tombstone and a restore
C4_Witness ==
  \E k \in Keys :
    /\ Len(revLog[k]) >= 3
    /\ local[k].present /\ ~local[k].deleted
    /\ local[k].revision = Len(revLog[k])

\* C5: the local revision of a key never decreases.  Every change of the revision
\* is a return of a local mutation, so: the row holds the revision returned last,
\* and none returned before it was greater.
C5_LocalRevisionNeverDecreases ==
  \A k \in Keys :
    /\ local[k].present <=> revLog[k] # << >>
    /\ local[k].present => local[k].revision = revLog[k][Len(revLog[k])]
    /\ \A i \in 1..Len(revLog[k]) : revLog[k][i] <= local[k].revision

\* C5 witness: a row mutated by foreground writes and by a pull, with an item
\* pushed in between
C5_Witness ==
  \E k \in Keys :
    /\ PullSaw(k) /\ pull.outcome[k] = "pulled"
    /\ pull.before[k].present
    /\ local[k].revision > pull.before[k].revision
    /\ \E i \in 1..Len(queue) : queue[i].synced

\* the outbox row a step of syncPush or retryDeadLetters handles, 0 if the step
\* is no such step
PushedId ==
  IF \E p \in Pushers : push[p].todo # << >> /\ push'[p] # push[p]
  THEN Head(push[CHOOSE p \in Pushers : push[p].todo # << >> /\ push'[p] # push[p]].todo)
  ELSE IF retry.todo # << >> /\ retry' # retry THEN Head(retry.todo) ELSE 0

\* C6: revision wins on the remote.  With this device the only writer (direct
\* writes, syncPush, retryDeadLetters), no step lowers the revision stored in a
\* remote document; an outbox item of revision r never overwrites a document that
\* holds a greater revision.
C6_RemoteRevisionNeverDecreases ==
  [][ world = "solo" =>
        \A k \in Keys : remote[k].exists => remote'[k].revision >= remote[k].revision ]_vars

\* C7: no resurrection on the remote.  With this device the only writer, a step of
\* syncPush or retryDeadLetters that writes an outbox item of payload revision at
\* most R to a document tombstoned at revision R leaves the document tombstoned.
C7_NoRemoteResurrection ==
  [][ (world = "solo" /\ PushedId # 0) =>
        LET item == queue[PushedId]
            doc == remote[item.key]
        IN (doc.exists /\ doc.deleted /\ item.payload.revision <= doc.revision)
             => remote'[item.key].deleted ]_vars

\* C8: idempotent push.  When the latest remote writes were two or more writes in
\* a row of the same outbox row (its write landed and the row was written again),
\* the document has the value, revision and deleted flag its first write left.
C8_PushTwiceSameAsOnce ==
  lastPush.n = 2 =>
    LET doc == remote[queue[lastPush.id].key]
    IN /\ doc.exists = lastPush.doc.exists
       /\ doc.value = lastPush.doc.value
       /\ doc.revision = lastPush.doc.revision
       /\ doc.deleted = lastPush.doc.deleted

\* C8 witness: the write of a row landed, the call still rejected (the row was
\* marked failed, not synced), and a later syncPush wrote the row again
C8_Witness ==
  /\ lastPush.n = 2
  /\ queue[lastPush.id].retry_count >= 1
  /\ queue[lastPush.id].synced
  /\ ~queue[lastPush.id].dead_letter
  /\ remote[queue[lastPush.id].key].exists

\* C9: dead-letter threshold.  An outbox row is dead-lettered exactly when its
\* retry_count is at least 5; a row that failed 5 times is dead-lettered and is
\* not among getPendingSyncItems, a row that failed less is not dead-lettered.
C9_DeadLetterThreshold ==
  \A i \in 1..Len(queue) :
    /\ queue[i].dead_letter <=> queue[i].retry_count >= MAX_RETRIES
    /\ queue[i].retry_count >= MAX_RETRIES => i \notin Range(getPendingSyncItems(queue))
    /\ queue[i].retry_count < MAX_RETRIES => ~queue[i].dead_letter

\* C9 witness: a row that failed exactly 5 times
C9_Witness ==
  \E i \in 1..Len(queue) :
    /\ queue[i].retry_count = MAX_RETRIES
    /\ queue[i].dead_letter
    /\ ~queue[i].synced
    /\ getSyncStatus(queue).pending = 0

\* C10: a row marked synced is counted neither as pending nor as dead; once
\* every dead-lettered row is synced, getSyncStatus().deadLetters is 0.
C10_SyncedIsNeitherPendingNorDead ==
  /\ \A i \in 1..Len(queue) :
       queue[i].synced => /\ i \notin Range(getPendingSyncItems(queue))
                          /\ i \notin Range(getDeadLetterItems(queue))
  /\ (\A i \in 1..Len(queue) : queue[i].dead_letter => queue[i].synced)
       => getSyncStatus(queue).deadLetters = 0

\* C11: syncPush never issues the remote write of an outbox row whose dead_letter
\* flag is set at the moment of the write, also when two invocations overlap.
C11_PushNeverWritesDeadLetter ==
  [][ \A p \in Pushers :
        (push[p].pc = "run" /\ push[p].todo # << >> /\ push'[p] # push[p])
          => ~queue[Head(push[p].todo)].dead_letter ]_vars

\* the ids of the rows of q that are dead-lettered
DeadIds(q) == {i \in 1..Len(q) : q[i].dead_letter}

C14_FailedPushCountsRetry ==
  [][ \A p \in Pushers :
        /\ (push[p].pc = "idle" /\ push'[p].pc = "unavailable") =>
             \A i \in Range(push'[p].pending) :
               /\ queue'[i].retry_count = queue[i].retry_count + 1
               /\ queue'[i].last_error # NULL
        /\ (push[p].pc = "run" /\ push'[p].pc = "run"
              /\ push'[p].failed = push[p].failed + 1) =>
             LET id == Head(push[p].todo)
             IN /\ queue'[id].retry_count = queue[id].retry_count + 1
                /\ queue'[id].last_error # NULL ]_vars

\* the part of C14 about a write that throws
C14_WriteFailureCountsRetry ==
  [][ \A p \in Pushers :
        (push[p].pc = "run" /\ push'[p].pc = "run"
          /\ push'[p].failed = push[p].failed + 1) =>
            LET id == Head(push[p].todo)
            IN /\ queue'[id].retry_count = queue[id].retry_count + 1
               /\ queue'[id].last_error # NULL ]_vars

\* the statuses of the three foreground writes, by call
QueuedStatus == [set |-> "queued", delete |-> "queued-delete", restore |-> "queued-restore"]
SyncedStatus == [set |-> "synced", delete |-> "deleted", restore |-> "restored"]

\* C15: when a foreground write returns, its local mutation is committed with the
\* revision it returns.  If its direct remote write failed, exactly one outbox row
\* was appended, carrying that revision, and the status is queued / queued-delete
\* / queued-restore; if the remote write succeeded, no outbox row was appended
\* and the status is synced / deleted / restored.
C15_QueuedOrSynced ==
  [][ \A w \in inflight :
        w \notin inflight' =>
          /\ reply'.key = w.key
          /\ reply'.revision = w.payload.revision
          /\ local' = local
          /\ local[w.key].present
          /\ reply'.revision \in Range(revLog[w.key])
          /\ reply'.remote = "rejected" =>
                /\ reply'.status = QueuedStatus[w.call]
                /\ Len(queue') = Len(queue) + 1
                /\ SubSeq(queue', 1, Len(queue)) = queue
                /\ queue'[Len(queue')].key = w.key
                /\ queue'[Len(queue')].payload.revision = reply'.revision
                /\ remote' = remote
          /\ reply'.remote = "written" =>
                /\ reply'.status = SyncedStatus[w.call]
                /\ queue' = queue ]_vars

\* C16: after a syncPull(deviceId) that returns status ok, the cursor
\* getDeviceLastSync(deviceId) returns is the time of that pull, for every
\* deviceId, one that never synced before included.
C16_CursorIsTimeOfPull ==
  (pull.pc = "done" /\ pull.status = "ok")
    => getDeviceLastSync(devices[pull.device]) = [epoch |-> FALSE, t |-> now]

\* C17: when a remote read of syncPull fails, the call returns an error status
\* and the cursor of the device is what the call read at its start.
C17_FailedPullKeepsCursor ==
  (pull.pc = "done" /\ pull.status = "error")
    => getDeviceLastSync(devices[pull.device]) = pull.lastSync

\* C17 witness: the global documents were applied, a later read rejected, and the
\* device has a cursor older than the time of the pull
C17_Witness ==
  /\ pull.pc = "done" /\ pull.status = "error"
  /\ pull.pulled >= 1
  /\ \A k \in Keys : pull.outcome[k] # "threw"
  /\ devices[pull.device].row
  /\ devices[pull.device].last_sync < now

\* what a second syncPull of the same device would do in the state a finished
\* syncPull left, with the remote store as it is in that state
SecondPull ==
  PullLoop(QuerySnapshot(remote, getDeviceLastSync(devices[pull.device])),
           remote, local, NoOutcome, revLog)

\* C18: pull is idempotent.  After a successful syncPull(d), a second syncPull(d)
\* with no remote change in between returns pulled = 0 and leaves every local
\* entry unchanged.
C18_PullIdempotent ==
  (pull.pc = "done" /\ pull.status = "ok" /\ remote = pull.seen)
    => /\ Count(SecondPull.outcome, "pulled") = 0
       /\ SecondPull.local = local

\* C19: when syncPull applied a remote document of revision r to a key, the local
\* revision of the key is r.
C19_PulledRevisionIsRemote ==
  \A k \in Keys :
    (PullSaw(k) /\ pull.outcome[k] = "pulled")
      => local[k].present /\ local[k].revision = pull.seen[k].revision

\* C20: when syncPull has run over a tombstoned remote document of a key the
\* local store had no row for, there is a local row with deleted = true: get
\* without includeDeleted is NotFound, get with includeDeleted finds the row.
C20_UnseenTombstoneCreated ==
  \A k \in Keys :
    (PullSaw(k) /\ pull.status = "ok" /\ ~pull.before[k].present /\ pull.seen[k].deleted)
      => /\ local[k].present /\ local[k].deleted
         /\ ~getGlobalMemoryFound(local[k], FALSE)
         /\ getGlobalMemoryFound(local[k], TRUE)

\* C21: remote tombstone wins or ties.  When a syncPull has handled a tombstoned
\* remote document of a key that has a local row, live or tombstoned, at a
\* revision not above the document's, the local row is deleted.
C21_RemoteTombstoneWinsOrTies ==
  \A k \in Keys :
    ( /\ PullSaw(k) /\ pull.outcome[k] # "unseen"
      /\ pull.before[k].present
      /\ pull.seen[k].deleted
      /\ pull.seen[k].revision >= pull.before[k].revision )
    => /\ local[k].present /\ local[k].deleted
       /\ pull.outcome[k] = "pulled"

\* C21 witness: the tie, a remote tombstone at exactly the revision of a live local row
C21_Witness ==
  \E k \in Keys :
    /\ PullSaw(k)
    /\ pull.before[k].present /\ ~pull.before[k].deleted
    /\ pull.seen[k].deleted
    /\ pull.seen[k].revision = pull.before[k].revision
    /\ local[k].deleted

\* C23: after set(k, v) then tombstone(k) on the only device that writes, when the
\* tombstone call returns: get without includeDeleted is NotFound, get with
\* includeDeleted returns value v with deleted = true, and list without
\* includeDeleted omits k, whether or not the remote store answers the read.
C23_TombstoneKeepsValue ==
  (world # "shared" /\ reply.status \in {"deleted", "queued-delete"}) =>
    \A reachable \in BOOLEAN :
      LET k == reply.key
          got == getGlobalMemory(local[k], remote[k], reachable, TRUE)
      IN /\ ~getGlobalMemory(local[k], remote[k], reachable, FALSE).found
         /\ got.found /\ got.deleted /\ got.value \in Values
         /\ k \notin listGlobalMemory(local, remote, reachable, FALSE)

\* the part of C23 about the local store: a step that tombstones a local row
\* keeps its value, and the answers of get and list that come from sqlite are
\* NotFound / the kept value with deleted = true / a list without the key
C23_LocalTombstoneKeepsValue ==
  [][ \A k \in Keys :
        (local[k].present /\ local'[k] # local[k] /\ local'[k].deleted) =>
          /\ local'[k].value = local[k].value
          /\ ~getGlobalMemory(local'[k], remote'[k], FALSE, FALSE).found
          /\ getGlobalMemory(local'[k], remote'[k], FALSE, TRUE) =
               [found |-> TRUE, source |-> "sqlite", value |-> local[k].value,
                deleted |-> TRUE]
          /\ k \notin listGlobalMemory(local', remote', FALSE, FALSE) ]_vars

\* C24: a tombstone of a key without a row, and a restore of a key without a row
\* or with a row that is not tombstoned, end in NOT_FOUND and change nothing: no
\* local row, revision, outbox row, audit row or remote document is created or
\* changed.  No other delete or restore ends in NOT_FOUND.
C24_NotFoundChangesNothing ==
  [][ /\ (reply.status = "none" /\ reply'.status = "Key not found") =>
           /\ ~local[reply'.key].present
           /\ local' = local /\ revLog' = revLog /\ queue' = queue
           /\ audit' = audit /\ inflight' = inflight /\ remote' = remote
      /\ (reply.status = "none" /\ reply'.status = "Key not found or not deleted") =>
           /\ ~local[reply'.key].present \/ ~local[reply'.key].deleted
           /\ local' = local /\ revLog' = revLog /\ queue' = queue
           /\ audit' = audit /\ inflight' = inflight /\ remote' = remote
      /\ audit' # audit =>
           LET row == audit'[Len(audit')]
           IN /\ audit' = Append(audit, row)
              /\ local[row.doc_path].present
              /\ row.action = "RESTORE" => local[row.doc_path].deleted ]_vars

\* C24 witness: a tombstone of a key that never existed ended in NOT_FOUND, with a
\* document of the key in the remote store
C24_Witness ==
  /\ reply.status = "Key not found"
  /\ ~local[reply.key].present
  /\ revLog[reply.key] = << >>
  /\ remote[reply.key].exists

\* C24 witness: a restore of a live key, tombstoned and restored before, ended in
\* NOT_FOUND
C24_WitnessRestore ==
  /\ reply.status = "Key not found or not deleted"
  /\ local[reply.key].present /\ ~local[reply.key].deleted
  /\ Len(audit) >= 2

\* C25: a local row with deleted = false has deleted_at, deleted_by,
\* delete_reason and infection_id null, in every reachable state; so after a set
\* or a restore of a tombstoned row the four fields are null.
C25_LiveRowHasNoDeletionFields ==
  \A k \in Keys :
    (local[k].present /\ ~local[k].deleted)
      => DeletionFields(local[k]) = << FALSE, NULL, NULL, NULL, NULL >>

\* C25 witness: a row tombstoned with a reason and an infection id, then restored
C25_Witness ==
  \E k \in Keys :
    /\ local[k].present /\ ~local[k].deleted
    /\ audit # << >> /\ audit[Len(audit)] = logAudit("RESTORE", k)
    /\ \E w \in inflight : w.call = "restore" /\ w.key = k

\* C26: a local row is never erased: a key that has a row has one after every step.
C26_NeverErased ==
  [][ \A k \in Keys : local[k].present => local'[k].present ]_vars

\* C26 witness: a row that was set, tombstoned, pushed and run over by a syncPull
C26_Witness ==
  \E k \in Keys :
    /\ local[k].present /\ local[k].deleted
    /\ PullSaw(k) /\ pull.before[k].present
    /\ \E i \in 1..Len(queue) : queue[i].key = k /\ queue[i].synced
    /\ \E i \in 1..Len(audit) : audit[i] = logAudit("DELETE", k)

\* C27: no mutation is silently dropped.  After every step, every outbox row that
\* is not synced is among the pending or the dead-lettered rows getSyncStatus
\* counts, and the step removed no row: the outbox has the rows it had, in their
\* order, with their key, operation and payload.
C27_NothingDropped ==
  [][ /\ \A i \in 1..Len(queue') :
           ~queue'[i].synced => \/ i \in Range(getPendingSyncItems(queue'))
                                \/ i \in Range(getDeadLetterItems(queue'))
      /\ getSyncStatus(queue').pending + getSyncStatus(queue').deadLetters
           >= Cardinality({i \in 1..Len(queue') : ~queue'[i].synced})
      /\ Len(queue') >= Len(queue)
      /\ \A i \in 1..Len(queue) :
           /\ queue'[i].key = queue[i].key
           /\ queue'[i].operation = queue[i].operation
           /\ queue'[i].payload = queue[i].payload
           /\ queue[i].synced => queue'[i].synced ]_vars

\* C27 witness: two rows not synced, one that failed once and is pending, one
\* dead-lettered
C27_Witness ==
  /\ Len(queue) = 2
  /\ \E i, j \in 1..2 :
       /\ ~queue[i].synced /\ ~queue[i].dead_letter /\ queue[i].retry_count >= 1
       /\ ~queue[j].synced /\ queue[j].dead_letter
  /\ getSyncStatus(queue) = [pending |-> 1, deadLetters |-> 1]

\* C29: getSyncStatus is read-only.  A call changes no outbox row, local row,
\* cursor or remote document (nor anything else), and the pending and deadLetters
\* it returns are the numbers of rows of getPendingSyncItems and of
\* getDeadLetterItems at that moment.
C29_StatusReadOnly ==
  [][ (reply.status = "none" /\ reply'.status = "status") =>
        /\ queue' = queue /\ local' = local /\ devices' = devices /\ remote' = remote
        /\ audit' = audit /\ inflight' = inflight /\ revLog' = revLog
        /\ push' = push /\ retry' = retry /\ pull' = pull
        /\ reply'.pending = Len(getPendingSyncItems(queue))
        /\ reply'.deadLetters = Len(getDeadLetterItems(queue)) ]_vars

\* C29 witness: a call that returned two pending rows while a syncPush was running
C29_Witness ==
  /\ reply.status = "status"
  /\ reply.pending = 2 /\ reply.deadLetters = 0
  /\ push["p1"].pc = "run"

PendingRow(i) == i <= Len(queue) /\ ~queue[i].synced /\ ~queue[i].dead_letter

\* C28: while syncPush keeps being invoked, every pending outbox row eventually
\* leaves the pending state (it is synced, or dead-lettered after 5 failed
\* attempts), whatever the kind of remote failure.
C28_PendingEventuallyLeaves ==
  \A i \in 1..MaxBacklog : PendingRow(i) ~> ~PendingRow(i)

\* the local row and the remote document of k agree on value, deleted flag and revision
Agree(k) ==
  /\ local[k].present <=> remote[k].exists
  /\ local[k].present =>
       /\ local[k].value = remote[k].value
       /\ local[k].deleted = remote[k].deleted
       /\ local[k].revision = remote[k].revision

\* the outbox has no pending row and every key is in agreement
Converged == getPendingSyncItems(queue) = << >> /\ \A k \in Keys : Agree(k)

\* a step taken while foreground writes have stopped and the remote store is
\* available: no set, delete or restore begins, no other device writes, and no remote
\* call of this device is rejected (no outbox row is added or marked failed, no
\* syncPush finds Firestore unavailable, no retry of a dead letter fails, no
\* remote read of syncPull rejects)
Calm ==
  /\ inflight' \subseteq inflight
  /\ reply.status = "none" =>
       reply'.status \notin {"Key not found", "Key not found or not deleted"}
  /\ remote' # remote => (inflight' # inflight \/ push' # push \/ retry' # retry)
  /\ Len(queue') = Len(queue)
  /\ \A i \in 1..Len(queue) : queue'[i].retry_count = queue[i].retry_count
  /\ \A p \in Pushers : push'[p].pc # "unavailable"
  /\ (retry.pc = "run" /\ retry'.pc = "run" /\ retry' # retry)
       => retry'.retried = retry.retried + 1
  /\ (pull.pc = "query" /\ pull'.status = "error")
       => \E k \in Keys : pull'.outcome[k] = "threw"
  /\ pull.pc = "reads" => pull'.status # "error"

\* C22: eventual convergence.  If from some point on foreground writes have
\* stopped and the remote store stays available, then, syncPush and syncPull being
\* run again and again, from some point on the outbox has no pending row and for
\* every key the local row and the remote document agree on value, deleted flag
\* and revision.
C22_EventualConvergence ==
  <>[][Calm]_vars => <>[]Converged

\* the rows an invocation of syncPush has handled so far
Handled(p) == push[p].synced + push[p].failed

\* C31: within one invocation of syncPush every enumerated row gets at most one
\* remote write attempt: the rows still to handle are the enumeration without its
\* first synced + failed rows, no row is enumerated twice, each iteration takes
\* the first remaining row and changes no other row of the outbox, and the
\* invocation returns only after one pass, with synced + failed = pending.length.
C31_OneAttemptPerPass ==
  [][ \A p \in Pushers :
        push[p].pc = "run" =>
          LET P == push[p] IN
          /\ \A i, j \in 1..Len(P.pending) : P.pending[i] = P.pending[j] => i = j
          /\ Handled(p) <= Len(P.pending)
          /\ P.todo = SubSeq(P.pending, Handled(p) + 1, Len(P.pending))
          /\ push'[p] # P =>
                \/ /\ push'[p] = Idle
                   /\ P.todo = << >>
                   /\ Handled(p) = Len(P.pending)
                \/ /\ P.todo # << >>
                   /\ push'[p].pc = "run"
                   /\ push'[p].pending = P.pending
                   /\ push'[p].todo = Tail(P.todo)
                   /\ push'[p].synced + push'[p].failed = Handled(p) + 1
                   /\ Len(queue') = Len(queue)
                   /\ \A i \in 1..Len(queue) : i # Head(P.todo) => queue'[i] = queue[i] ]_vars

\* C31 witness: an invocation enumerated two rows, the write of the first failed
\* and left it pending, and the invocation is at the second row
C31_Witness ==
  /\ push["p1"].pc = "run"
  /\ push["p1"].pending = << 1, 2 >>
  /\ push["p1"].todo = << 2 >>
  /\ push["p1"].failed = 1
  /\ queue[1].retry_count >= 1 /\ ~queue[1].synced /\ ~queue[1].dead_letter

\* C32: syncPush changes only outbox rows and remote documents: no step of an
\* invocation of syncPush changes a local entry, a device cursor or the audit log.
C32_PushFrame ==
  [][ push' # push =>
        /\ local' = local
        /\ devices' = devices
        /\ audit' = audit
        /\ revLog' = revLog ]_vars

\* C32 witness: an invocation delivered a row while there are a local entry, a
\* device cursor and an audit row
C32_Witness ==
  /\ \E p \in Pushers : push[p].pc = "run" /\ push[p].synced >= 1
  /\ lastPush.id # 0
  /\ \E k \in Keys : local[k].present
  /\ \E d \in Devices : devices[d].row
  /\ audit # << >>

\* C34: applying a remote tombstone to a local entry that is already tombstoned
\* at the same revision is idempotent: after the pull the revision, the deleted
\* flag and the deletion fields of the entry are what they were.
C34_SameTombstoneIdempotent ==
  \A k \in Keys :
    (/\ PullSaw(k)
     /\ pull.before[k].present /\ pull.before[k].deleted
     /\ pull.seen[k].deleted = TRUE
     /\ pull.seen[k].revision = pull.before[k].revision)
      => /\ local[k].revision = pull.before[k].revision
         /\ DeletionFields(local[k]) = DeletionFields(pull.before[k])

\* the audit row of a successful foreground delete or restore of key k
AuditRow(call, k) ==
  [action |-> IF call = "delete" THEN "DELETE" ELSE "RESTORE", doc_path |-> k,
   actor_uid |-> Uid]

\* C35: the audit log is append-only, and every delete or restore that succeeds
\* locally appends exactly one row, DELETE or RESTORE with the key, before its
\* remote write is attempted; the outcome of the remote write, and every other
\* step, leaves the log as it is.
C35_AuditAppendOnly ==
  [][ /\ Len(audit') >= Len(audit)
      /\ SubSeq(audit', 1, Len(audit)) = audit
      /\ \A w \in inflight' \ inflight :
            IF w.call \in {"delete", "restore"}
            THEN audit' = Append(audit, AuditRow(w.call, w.key))
            ELSE audit' = audit
      /\ inflight' \ inflight = {} => audit' = audit ]_vars

\* C35 witness: a delete whose remote write was rejected and queued, then a
\* restore: one row each in the log, in that order
C35_Witness ==
  /\ audit = << AuditRow("delete", "k1"), AuditRow("restore", "k1") >>
  /\ \E i \in 1..Len(queue) : queue[i].operation = "TOMBSTONE" /\ ~queue[i].synced
  /\ \E w \in inflight : w.call = "restore"

\* C36: an outbox row that is marked synced is never written to the remote store
\* again, neither by syncPush nor by retryDeadLetters.
C36_SyncedNeverRewritten ==
  [][ PushedId # 0 => ~queue[PushedId].synced ]_vars

\* the rows an invocation of syncPush has already handled
HandledRows(p) == Range(SubSeq(push[p].pending, 1, Handled(p)))

\* C39: two overlapping invocations of syncPush never both deliver the same
\* outbox row: a row one invocation handles was not handled by another
\* invocation that is still running.
C39_OverlappingPushesShareNoRow ==
  [][ \A p, q \in Pushers :
        (/\ p # q
         /\ push[p].pc = "run" /\ push[p].todo # << >> /\ push'[p] # push[p]
         /\ push[q].pc = "run")
          => Head(push[p].todo) \notin HandledRows(q) ]_vars

C33_OnlyAfterCursor ==
  \A k \in Keys :
    (/\ pull.pc = "done"
     /\ ~pull.lastSync.epoch
     /\ pull.seen[k].exists
     /\ pull.seen[k].updated_at < pull.lastSync.t)
      => /\ k \notin Range(pull.snap)
         /\ local[k] = pull.before[k]

\* C37: no remote change is missed by the incremental pull: when a syncPull of a
\* registered device has returned ok, every remote document written after its
\* query was answered, while it was still running included, is in the snapshot of
\* a query with the cursor the pull stored.
C37_NoChangeMissed ==
  \A k \in Keys :
    (/\ pull.pc = "done" /\ pull.status = "ok"
     /\ devices[pull.device].row
     /\ remote[k].exists
     /\ remote[k] # pull.seen[k])
      => k \in Range(QuerySnapshot(remote, getDeviceLastSync(devices[pull.device])))

\* C38: two foreground writes of a key overlap and both direct remote writes
\* succeed: once no remote write is awaited, the remote document has the
\* revision and the value of the local row, that of the later local write.
C38_RemoteHoldsLaterWrite ==
  \A k \in Keys :
    (world = "overlap" /\ inflight = {} /\ local[k].present)
      => /\ remote[k].exists
         /\ remote[k].revision = local[k].revision
         /\ remote[k].value = local[k].value

====
